---- MODULE Spec2Model ----
(***************************************************************************)
(* Model of RavEngine's NavMeshComponent (src/src/NavMeshComponent.cpp):   *)
(* the constructor, which bakes a navigation mesh through the Recast       *)
(* stages and hands the result to Detour, and the destructor.              *)
(*                                                                         *)
(* The constructor is one sequential routine; pc is the source line of the *)
(* next statement, and each action is one statement (or one call together  *)
(* with the test of its result).  The outcome of every allocation and of   *)
(* every library call is chosen nondeterministically.  A statement whose   *)
(* behaviour is undefined (a dereferenced null pointer, an access past the *)
(* end of an array) either crashes the process or carries on; ub records   *)
(* that such a statement has run.                                          *)
(***************************************************************************)
EXTENDS Integers, Sequences, FiniteSets

VARIABLES
    mesh,          \* the MeshAsset: [hasRAM, nverts, ntris]
    opt,           \* the NavMeshOptions: [cellSize, cellHeight, agent, maxVertsPerPoly, partitionMethod]
    cfg,           \* the rcConfig filled in step 1
    pc,            \* source line of the next statement; "end" once the constructor is over
    outcome,       \* "running", "success", "skipped", "fatal", "threw" or "crashed"
    fatal,         \* the message handed to Debug::Fatal, "" when there is none
    warning,       \* Debug::Warning has been raised
    ub,            \* a statement with undefined behaviour has run
    failed,        \* the first allocation or call that reported failure, "" when none
    log,           \* the operations executed so far, in order
    ptr,           \* the constructor's local pointers
    self,          \* the component's member pointers
    heap,          \* every object of the bake: "unalloc", "live" or "freed"
    frees,         \* how many times each object has been freed
    markNt,        \* the triangle count handed to rcMarkWalkableTriangles, -1 before the call
    rasterNt,      \* the triangle count handed to rcRasterizeTriangles, -1 before the call
    meshInit,      \* the dtNavMesh object has been initialized
    meshOwnsData,  \* the dtNavMesh object has taken the blob with DT_TILE_FREE_DATA
    queryInit,     \* the dtNavMeshQuery object has been initialized against the mesh object
    destroyed,     \* the destructor has run
    dtorFreed      \* the objects the destructor freed

vars ==
    <<mesh, opt, cfg, pc, outcome, fatal, warning, ub, failed, log, ptr, self,
      heap, frees, markNt, rasterNt, meshInit, meshOwnsData, queryInit,
      destroyed, dtorFreed>>

(***************************************************************************)
(* Bounds of the model and constants of the program.                       *)
(***************************************************************************)
MaxTris == 2

MaxVerts == 3

MaxVertsOver == 1

\* world-unit lengths (agent height, radius, max climb) and cell units (cell
\* size, cell height) are whole multiples of one common unit of length
MaxWorld == 4

MaxCell == 3

DT_VERTS_PER_POLYGON == 6

PartitionMethods == {"Watershed", "Monotone", "Layer"}

Locals == {"triareas", "solid", "chf", "cset", "pmesh", "dmesh", "navMesh"}

Members == {"navMesh", "navMeshQuery", "navData"}

Objects == {"triareas", "solid", "chf", "cset", "pmesh", "dmesh", "navData", "navMesh", "navMeshQuery"}

Intermediates == {"triareas", "solid", "chf", "cset", "pmesh", "dmesh"}

RuntimeObjects == {"navData", "navMesh", "navMeshQuery"}

Null == "null"

(***************************************************************************)
(* Helpers shared by the statements.                                       *)
(***************************************************************************)
Op(name, stage, args) == [op |-> name, stage |-> stage, args |-> args]

\* control passes to the statement at line l
Goto(l) ==
    /\ pc' = l
    /\ outcome' = outcome
    /\ fatal' = fatal

\* Debug::Fatal(msg): the bake is aborted, the constructor never returns normally
DebugFatal(msg) ==
    /\ pc' = "end"
    /\ outcome' = "fatal"
    /\ fatal' = msg

\* the process dies inside a statement with undefined behaviour
Crash ==
    /\ pc' = "end"
    /\ outcome' = "crashed"
    /\ fatal' = fatal

\* a C++ allocation throws std::bad_alloc out of the constructor
Throw ==
    /\ pc' = "end"
    /\ outcome' = "threw"
    /\ fatal' = fatal

\* Debug::Warning(msg): a diagnostic after which control carries on
DebugWarning ==
    warning' = TRUE

\* the member pointers navMesh, navMeshQuery and navData before the
\* constructor's body runs
MembersInitial ==
    [m \in Members |-> Null]

\* an allocation or a call reports failure; failed keeps the first one
Report(name) == failed' = IF failed = "" THEN name ELSE failed

\* ceilf(num / den) converted to int, for num >= 0 and den > 0
CeilfDiv(num, den) ==
    (num + den - 1) \div den

\* the same conversion with ceilf left out: the quotient truncated to int
TruncDiv(num, den) ==
    num \div den

\* line 27: memset(&cfg, 0, sizeof(cfg))
ZeroConfig ==
    [cs |-> 0, ch |-> 0, walkableHeight |-> 0, walkableClimb |-> 0,
     walkableRadius |-> 0, maxVertsPerPoly |-> 0]

\* rcConfigOf with the three conversions truncating
rcConfigTruncated(o) ==
    [cs |-> o.cellSize,
     ch |-> o.cellHeight,
     walkableHeight |-> TruncDiv(o.agent.height, o.cellHeight),
     walkableClimb |-> TruncDiv(o.agent.maxClimb, o.cellHeight),
     walkableRadius |-> TruncDiv(o.agent.radius, o.cellSize),
     maxVertsPerPoly |-> o.maxVertsPerPoly]

\* lines 28-38: the rcConfig derived from the options o
rcConfigOf(o) ==
    [cs |-> o.cellSize,
     ch |-> o.cellHeight,
     walkableHeight |-> CeilfDiv(o.agent.height, o.cellHeight),
     walkableClimb |-> CeilfDiv(o.agent.maxClimb, o.cellHeight),
     walkableRadius |-> CeilfDiv(o.agent.radius, o.cellSize),
     maxVertsPerPoly |-> o.maxVertsPerPoly]

\* the valid agent profiles: height > 0, radius >= 0, max climb >= 0
AgentProfiles ==
    [height : 1..MaxWorld, radius : 0..MaxWorld, maxClimb : 0..MaxWorld]

\* the profile and cell units the bakes of Spec run with
BakeProfile ==
    [height |-> MaxWorld, radius |-> 1, maxClimb |-> 1]

\* the state when the constructor is entered with a mesh of meshes and
\* options of opts
InitOf(meshes, opts) ==
    /\ mesh \in meshes
    /\ opt \in opts
    /\ cfg = ZeroConfig
    /\ pc = "L11"
    /\ outcome = "running"
    /\ fatal = ""
    /\ warning = FALSE
    /\ ub = FALSE
    /\ failed = ""
    /\ log = <<>>
    /\ ptr = [p \in Locals |-> Null]
    /\ self = MembersInitial
    /\ heap = [o \in Objects |-> "unalloc"]
    /\ frees = [o \in Objects |-> 0]
    /\ markNt = -1
    /\ rasterNt = -1
    /\ meshInit = FALSE
    /\ meshOwnsData = FALSE
    /\ queryInit = FALSE
    /\ destroyed = FALSE
    /\ dtorFreed = {}

Meshes ==
    {m \in [hasRAM : BOOLEAN, nverts : 0..MaxVerts, ntris : 0..MaxTris] :
        m.ntris > 0 => m.nverts > 0}

Init ==
    InitOf(Meshes,
           [cellSize : {MaxCell}, cellHeight : {MaxCell}, agent : {BakeProfile},
            maxVertsPerPoly : (DT_VERTS_PER_POLYGON - 1)..(DT_VERTS_PER_POLYGON + MaxVertsOver),
            partitionMethod : PartitionMethods])

\* the constructor entered with every valid agent profile and every cell unit
InitConfig ==
    InitOf({m \in Meshes : m.nverts = 0},
           [cellSize : 1..MaxCell, cellHeight : 1..MaxCell, agent : AgentProfiles,
            maxVertsPerPoly : {DT_VERTS_PER_POLYGON},
            partitionMethod : {"Watershed"}])

(***************************************************************************)
(* Statement patterns of the constructor.                                  *)
(***************************************************************************)
\* `if (!f(...)) Debug::Fatal(msg);` where undefined tells whether the call
\* dereferences a null pointer or reads or writes past an array
Checked(here, o, undefined, next, msg) ==
    /\ pc = here
    /\ log' = Append(log, o)
    /\ ub' = (ub \/ undefined)
    /\ \/ Goto(next) /\ failed' = failed
       \/ DebugFatal(msg) /\ Report(o.op)
       \/ undefined /\ Crash /\ failed' = failed

\* `f(...);` for a call that returns nothing
Unchecked(here, o, undefined, next) ==
    /\ pc = here
    /\ log' = Append(log, o)
    /\ ub' = (ub \/ undefined)
    /\ failed' = failed
    /\ \/ Goto(next)
       \/ undefined /\ Crash

\* `auto p = rcAllocX(); if (!p) Debug::Fatal(msg);`
Alloc(here, o, name, next, msg) ==
    /\ pc = here
    /\ log' = Append(log, o)
    /\ \/ /\ ptr' = [ptr EXCEPT ![name] = name]
          /\ heap' = [heap EXCEPT ![name] = "live"]
          /\ Goto(next)
          /\ failed' = failed
       \/ /\ ptr' = [ptr EXCEPT ![name] = Null]
          /\ heap' = heap
          /\ DebugFatal(msg)
          /\ Report(o.op)

\* the heap after free(p): a null pointer frees nothing
HeapAfterFree(h, p) ==
    IF p = Null THEN h ELSE [h EXCEPT ![p] = "freed"]

FreesAfterFree(f, p) ==
    IF p = Null THEN f ELSE [f EXCEPT ![p] = @ + 1]

\* dtFree(p), rcFreeX(p), delete[] p
Free(p) ==
    /\ heap' = HeapAfterFree(heap, p)
    /\ frees' = FreesAfterFree(frees, p)

(***************************************************************************)
(* The constructor, statement by statement.                                *)
(***************************************************************************)
\* AssertSystemRAMCopy as it would be with the assertion compiled out
AssertSystemRAMCopyIgnored ==
    /\ pc = "L11"
    /\ log' = Append(log, Op("Debug::Assert", 0, <<"hasSystemRAMCopy">>))
    /\ Goto("L13")
    /\ failed' = failed
    /\ UNCHANGED <<mesh, opt, cfg, warning, ub, ptr, self, heap, frees, markNt,
                   rasterNt, meshInit, meshOwnsData, queryInit, destroyed, dtorFreed>>

\* line 11: Debug::Assert(mesh->hasSystemRAMCopy(), ...)
AssertSystemRAMCopy ==
    /\ pc = "L11"
    /\ log' = Append(log, Op("Debug::Assert", 0, <<"hasSystemRAMCopy">>))
    /\ IF mesh.hasRAM
       THEN Goto("L13") /\ failed' = failed
       ELSE /\ DebugFatal("MeshAsset must be created with keepInSystemRAM = true")
            /\ Report("Debug::Assert")
    /\ UNCHANGED <<mesh, opt, cfg, warning, ub, ptr, self, heap, frees, markNt,
                   rasterNt, meshInit, meshOwnsData, queryInit, destroyed, dtorFreed>>

\* lines 13-47: copy the positions into the vector vertsOnly, whose allocation
\* may throw, and fill in the rcConfig
SetupConfig ==
    /\ pc = "L13"
    /\ \/ /\ cfg' = rcConfigOf(opt)
          /\ log' = log \o <<Op("vector", 1, <<"vertsOnly">>), Op("rcConfig", 1, <<"opt", "bounds">>)>>
          /\ Goto("L50")
          /\ failed' = failed
       \/ /\ cfg' = cfg
          /\ log' = Append(log, Op("vector", 1, <<"vertsOnly">>))
          /\ Throw
          /\ Report("vector")
    /\ UNCHANGED <<mesh, opt, warning, ub, ptr, self, heap, frees, markNt,
                   rasterNt, meshInit, meshOwnsData, queryInit, destroyed, dtorFreed>>

\* lines 50-53: auto solid = rcAllocHeightfield(); if (solid) Debug::Fatal(...)
AllocHeightfield ==
    /\ pc = "L50"
    /\ log' = Append(log, Op("rcAllocHeightfield", 2, <<>>))
    /\ \/ /\ ptr' = [ptr EXCEPT !["solid"] = "solid"]
          /\ heap' = [heap EXCEPT !["solid"] = "live"]
          /\ failed' = failed
       \/ /\ ptr' = [ptr EXCEPT !["solid"] = Null]
          /\ heap' = heap
          /\ Report("rcAllocHeightfield")
    /\ IF ptr'["solid"] # Null
       THEN DebugFatal("Build nagivation failed: out of memory")
       ELSE Goto("L54")
    /\ UNCHANGED <<mesh, opt, cfg, warning, ub, self, frees, markNt, rasterNt,
                   meshInit, meshOwnsData, queryInit, destroyed, dtorFreed>>

\* lines 54-56: rcCreateHeightfield(&ctx, *solid, ...)
CreateHeightfield ==
    /\ Checked("L54", Op("rcCreateHeightfield", 2, <<"solid">>), ptr["solid"] = Null,
               "L59", "Height field generation failed")
    /\ UNCHANGED <<mesh, opt, cfg, warning, ptr, self, heap, frees, markNt, rasterNt,
                   meshInit, meshOwnsData, queryInit, destroyed, dtorFreed>>

\* lines 59-60: triareas = new unsigned char[indices.size()/3]; memset
AllocTriareas ==
    /\ pc = "L59"
    /\ log' = Append(log, Op("new[]", 2, <<"triareas">>))
    /\ \/ /\ ptr' = [ptr EXCEPT !["triareas"] = "triareas"]
          /\ heap' = [heap EXCEPT !["triareas"] = "live"]
          /\ Goto("L61")
          /\ failed' = failed
       \/ /\ UNCHANGED <<ptr, heap>>
          /\ Throw
          /\ Report("new[]")
    /\ UNCHANGED <<mesh, opt, cfg, warning, ub, self, frees, markNt, rasterNt,
                   meshInit, meshOwnsData, queryInit, destroyed, dtorFreed>>

\* line 61: rcMarkWalkableTriangles(..., indices.data(), indices.size(), triareas)
MarkWalkableTriangles ==
    /\ markNt' = 3 * mesh.ntris
    /\ Unchecked("L61", Op("rcMarkWalkableTriangles", 2, <<"triareas">>),
                 markNt' > mesh.ntris, "L62")
    /\ UNCHANGED <<mesh, opt, cfg, warning, ptr, self, heap, frees, rasterNt,
                   meshInit, meshOwnsData, queryInit, destroyed, dtorFreed>>

\* lines 62-64: rcRasterizeTriangles(&ctx, verts, triareas, vertsOnly.size(), *solid)
RasterizeTriangles ==
    /\ rasterNt' = mesh.nverts
    /\ Checked("L62", Op("rcRasterizeTriangles", 2, <<"triareas", "solid">>),
               ptr["solid"] = Null \/ rasterNt' > mesh.ntris \/ 3 * rasterNt' > mesh.nverts,
               "L66", "Could not rasterize triangles for navigation")
    /\ UNCHANGED <<mesh, opt, cfg, warning, ptr, self, heap, frees, markNt,
                   meshInit, meshOwnsData, queryInit, destroyed, dtorFreed>>

\* line 66: delete[] triareas
DeleteTriareas ==
    /\ pc = "L66"
    /\ log' = Append(log, Op("delete[]", 2, <<"triareas">>))
    /\ Free(ptr["triareas"])
    /\ Goto("L69")
    /\ UNCHANGED <<mesh, opt, cfg, warning, ub, failed, ptr, self, markNt, rasterNt,
                   meshInit, meshOwnsData, queryInit, destroyed, dtorFreed>>

\* FilterLowHangingWalkableObstacles as it would be with the ledge filter called
\* in its place
FilterLedgeSpansFirst ==
    /\ Unchecked("L69", Op("rcFilterLedgeSpans", 3, <<"cfg.walkableHeight", "cfg.walkableClimb", "solid">>),
                 ptr["solid"] = Null, "L70")
    /\ UNCHANGED <<mesh, opt, cfg, warning, ptr, self, heap, frees, markNt, rasterNt,
                   meshInit, meshOwnsData, queryInit, destroyed, dtorFreed>>

\* line 69: rcFilterLowHangingWalkableObstacles(&ctx, cfg.walkableClimb, *solid)
FilterLowHangingWalkableObstacles ==
    /\ Unchecked("L69", Op("rcFilterLowHangingWalkableObstacles", 3, <<"cfg.walkableClimb", "solid">>),
                 ptr["solid"] = Null, "L70")
    /\ UNCHANGED <<mesh, opt, cfg, warning, ptr, self, heap, frees, markNt, rasterNt,
                   meshInit, meshOwnsData, queryInit, destroyed, dtorFreed>>

\* line 70: rcFilterLedgeSpans(&ctx, cfg.walkableHeight, cfg.walkableClimb, *solid)
FilterLedgeSpans ==
    /\ Unchecked("L70", Op("rcFilterLedgeSpans", 3, <<"cfg.walkableHeight", "cfg.walkableClimb", "solid">>),
                 ptr["solid"] = Null, "L71")
    /\ UNCHANGED <<mesh, opt, cfg, warning, ptr, self, heap, frees, markNt, rasterNt,
                   meshInit, meshOwnsData, queryInit, destroyed, dtorFreed>>

\* line 71: rcFilterWalkableLowHeightSpans(&ctx, cfg.walkableHeight, *solid)
FilterWalkableLowHeightSpans ==
    /\ Unchecked("L71", Op("rcFilterWalkableLowHeightSpans", 3, <<"cfg.walkableHeight", "solid">>),
                 ptr["solid"] = Null, "L74")
    /\ UNCHANGED <<mesh, opt, cfg, warning, ptr, self, heap, frees, markNt, rasterNt,
                   meshInit, meshOwnsData, queryInit, destroyed, dtorFreed>>

\* lines 74-77: auto chf = rcAllocCompactHeightfield(); if (!chf) Debug::Fatal(...)
AllocCompactHeightfield ==
    /\ Alloc("L74", Op("rcAllocCompactHeightfield", 4, <<>>), "chf", "L78",
             "Failed to allocate compact height field")
    /\ UNCHANGED <<mesh, opt, cfg, warning, ub, self, frees, markNt, rasterNt,
                   meshInit, meshOwnsData, queryInit, destroyed, dtorFreed>>

\* BuildCompactHeightfield as it would be with the heightfield released before
\* the compact heightfield is built from it
BuildCompactHeightfieldAfterFree ==
    /\ pc = "L78"
    /\ log' = log \o <<Op("rcFreeHeightField", 4, <<"solid">>),
                       Op("rcBuildCompactHeightfield", 4, <<"solid", "chf">>)>>
    /\ Free(ptr["solid"])
    /\ ub' = TRUE
    /\ \/ Goto("L81") /\ failed' = failed
       \/ DebugFatal("Compact height field generation failed") /\ Report("rcBuildCompactHeightfield")
    /\ UNCHANGED <<mesh, opt, cfg, warning, ptr, self, markNt, rasterNt,
                   meshInit, meshOwnsData, queryInit, destroyed, dtorFreed>>

\* lines 78-80: rcBuildCompactHeightfield(&ctx, ..., *solid, *chf)
BuildCompactHeightfield ==
    /\ Checked("L78", Op("rcBuildCompactHeightfield", 4, <<"solid", "chf">>),
               ptr["solid"] = Null \/ ptr["chf"] = Null,
               "L81", "Compact height field generation failed")
    /\ UNCHANGED <<mesh, opt, cfg, warning, ptr, self, heap, frees, markNt, rasterNt,
                   meshInit, meshOwnsData, queryInit, destroyed, dtorFreed>>

\* lines 81-82: rcFreeHeightField(solid); solid = nullptr
FreeHeightField ==
    /\ pc = "L81"
    /\ log' = Append(log, Op("rcFreeHeightField", 4, <<"solid">>))
    /\ Free(ptr["solid"])
    /\ ptr' = [ptr EXCEPT !["solid"] = Null]
    /\ Goto("L85")
    /\ UNCHANGED <<mesh, opt, cfg, warning, ub, failed, self, markNt, rasterNt,
                   meshInit, meshOwnsData, queryInit, destroyed, dtorFreed>>

\* lines 85-87: rcErodeWalkableArea(&ctx, cfg.walkableRadius, *chf)
ErodeWalkableArea ==
    /\ Checked("L85", Op("rcErodeWalkableArea", 4, <<"cfg.walkableRadius", "chf">>),
               ptr["chf"] = Null, "L89", "Walkable radius erode failed")
    /\ UNCHANGED <<mesh, opt, cfg, warning, ptr, self, heap, frees, markNt, rasterNt,
                   meshInit, meshOwnsData, queryInit, destroyed, dtorFreed>>

\* SwitchPartitionMethod as it would be with the Monotone case running the
\* Watershed branch
SwitchPartitionMethodSwapped ==
    /\ pc = "L89"
    /\ Goto(CASE opt.partitionMethod = "Watershed" -> "L91"
              [] opt.partitionMethod = "Monotone" -> "L91"
              [] opt.partitionMethod = "Layer" -> "L106")
    /\ UNCHANGED <<mesh, opt, cfg, warning, ub, failed, log, ptr, self, heap, frees,
                   markNt, rasterNt, meshInit, meshOwnsData, queryInit, destroyed, dtorFreed>>

\* line 89: switch (opt.partitionMethod)
SwitchPartitionMethod ==
    /\ pc = "L89"
    /\ Goto(CASE opt.partitionMethod = "Watershed" -> "L91"
              [] opt.partitionMethod = "Monotone" -> "L100"
              [] opt.partitionMethod = "Layer" -> "L106")
    /\ UNCHANGED <<mesh, opt, cfg, warning, ub, failed, log, ptr, self, heap, frees,
                   markNt, rasterNt, meshInit, meshOwnsData, queryInit, destroyed, dtorFreed>>

\* lines 91-93: rcBuildDistanceField(&ctx, *chf)
BuildDistanceField ==
    /\ Checked("L91", Op("rcBuildDistanceField", 5, <<"chf">>), ptr["chf"] = Null,
               "L94", "Distance field generation failed")
    /\ UNCHANGED <<mesh, opt, cfg, warning, ptr, self, heap, frees, markNt, rasterNt,
                   meshInit, meshOwnsData, queryInit, destroyed, dtorFreed>>

\* lines 94-96: rcBuildRegions(&ctx, *chf, 0, cfg.minRegionArea, cfg.mergeRegionArea)
BuildRegions ==
    /\ Checked("L94", Op("rcBuildRegions", 5, <<"chf", "0", "cfg.minRegionArea", "cfg.mergeRegionArea">>),
               ptr["chf"] = Null, "L114", "Region generation failed")
    /\ UNCHANGED <<mesh, opt, cfg, warning, ptr, self, heap, frees, markNt, rasterNt,
                   meshInit, meshOwnsData, queryInit, destroyed, dtorFreed>>

\* BuildRegionsMonotone as it would be with the minimum region area passed for
\* both thresholds
BuildRegionsMonotoneMinTwice ==
    /\ Checked("L100", Op("rcBuildRegionsMonotone", 5, <<"chf", "0", "cfg.minRegionArea", "cfg.minRegionArea">>),
               ptr["chf"] = Null, "L114", "Monotone region generation failed")
    /\ UNCHANGED <<mesh, opt, cfg, warning, ptr, self, heap, frees, markNt, rasterNt,
                   meshInit, meshOwnsData, queryInit, destroyed, dtorFreed>>

\* lines 100-102: rcBuildRegionsMonotone(&ctx, *chf, 0, cfg.minRegionArea, cfg.mergeRegionArea)
BuildRegionsMonotone ==
    /\ Checked("L100", Op("rcBuildRegionsMonotone", 5, <<"chf", "0", "cfg.minRegionArea", "cfg.mergeRegionArea">>),
               ptr["chf"] = Null, "L114", "Monotone region generation failed")
    /\ UNCHANGED <<mesh, opt, cfg, warning, ptr, self, heap, frees, markNt, rasterNt,
                   meshInit, meshOwnsData, queryInit, destroyed, dtorFreed>>

\* lines 106-108: rcBuildLayerRegions(&ctx, *chf, 0, cfg.minRegionArea)
BuildLayerRegions ==
    /\ Checked("L106", Op("rcBuildLayerRegions", 5, <<"chf", "0", "cfg.minRegionArea">>),
               ptr["chf"] = Null, "L114", "Layer region generation failed")
    /\ UNCHANGED <<mesh, opt, cfg, warning, ptr, self, heap, frees, markNt, rasterNt,
                   meshInit, meshOwnsData, queryInit, destroyed, dtorFreed>>

\* lines 114-117: auto cset = rcAllocContourSet(); if (!cset) Debug::Fatal(...)
AllocContourSet ==
    /\ Alloc("L114", Op("rcAllocContourSet", 6, <<>>), "cset", "L118",
             "Could not allocate contour set")
    /\ UNCHANGED <<mesh, opt, cfg, warning, ub, self, frees, markNt, rasterNt,
                   meshInit, meshOwnsData, queryInit, destroyed, dtorFreed>>

\* lines 118-120: rcBuildContours(&ctx, *chf, ..., *cset)
BuildContours ==
    /\ Checked("L118", Op("rcBuildContours", 6, <<"chf", "cset">>),
               ptr["chf"] = Null \/ ptr["cset"] = Null, "L123", "Contour generation failed")
    /\ UNCHANGED <<mesh, opt, cfg, warning, ptr, self, heap, frees, markNt, rasterNt,
                   meshInit, meshOwnsData, queryInit, destroyed, dtorFreed>>

\* lines 123-126: auto pmesh = rcAllocPolyMesh(); if (!pmesh) Debug::Fatal(...)
AllocPolyMesh ==
    /\ Alloc("L123", Op("rcAllocPolyMesh", 7, <<>>), "pmesh", "L127",
             "PolyMesh allocation failed")
    /\ UNCHANGED <<mesh, opt, cfg, warning, ub, self, frees, markNt, rasterNt,
                   meshInit, meshOwnsData, queryInit, destroyed, dtorFreed>>

\* lines 127-129: rcBuildPolyMesh(&ctx, *cset, cfg.maxVertsPerPoly, *pmesh)
BuildPolyMesh ==
    /\ Checked("L127", Op("rcBuildPolyMesh", 7, <<"cset", "cfg.maxVertsPerPoly", "pmesh">>),
               ptr["cset"] = Null \/ ptr["pmesh"] = Null, "L132", "Contour triangulation failed")
    /\ UNCHANGED <<mesh, opt, cfg, warning, ptr, self, heap, frees, markNt, rasterNt,
                   meshInit, meshOwnsData, queryInit, destroyed, dtorFreed>>

\* lines 132-135: auto dmesh = rcAllocPolyMeshDetail(); if (!dmesh) Debug::Fatal(...)
AllocPolyMeshDetail ==
    /\ Alloc("L132", Op("rcAllocPolyMeshDetail", 8, <<>>), "dmesh", "L136",
             "Detail mesh allocation failed")
    /\ UNCHANGED <<mesh, opt, cfg, warning, ub, self, frees, markNt, rasterNt,
                   meshInit, meshOwnsData, queryInit, destroyed, dtorFreed>>

\* lines 136-138: rcBuildPolyMeshDetail(&ctx, *pmesh, *chf, ..., *dmesh)
BuildPolyMeshDetail ==
    /\ Checked("L136", Op("rcBuildPolyMeshDetail", 8, <<"pmesh", "chf", "dmesh">>),
               ptr["pmesh"] = Null \/ ptr["chf"] = Null \/ ptr["dmesh"] = Null,
               "L141", "Detail mesh generation failed")
    /\ UNCHANGED <<mesh, opt, cfg, warning, ptr, self, heap, frees, markNt, rasterNt,
                   meshInit, meshOwnsData, queryInit, destroyed, dtorFreed>>

\* lines 141-144: rcFreeCompactHeightfield(chf); rcFreeContourSet(cset); both = nullptr
FreeCompactAndContours ==
    /\ pc = "L141"
    /\ log' = log \o <<Op("rcFreeCompactHeightfield", 8, <<"chf">>),
                       Op("rcFreeContourSet", 8, <<"cset">>)>>
    /\ heap' = HeapAfterFree(HeapAfterFree(heap, ptr["chf"]), ptr["cset"])
    /\ frees' = FreesAfterFree(FreesAfterFree(frees, ptr["chf"]), ptr["cset"])
    /\ ptr' = [ptr EXCEPT !["chf"] = Null, !["cset"] = Null]
    /\ Goto("L147")
    /\ UNCHANGED <<mesh, opt, cfg, warning, ub, failed, self, markNt, rasterNt,
                   meshInit, meshOwnsData, queryInit, destroyed, dtorFreed>>

\* CheckVertsPerPoly as it would be with dtCreateNavMeshData hoisted above the
\* test of maxVertsPerPoly: the skipped bake leaves a blob in navData
CheckVertsPerPolyAfterCreate ==
    /\ pc = "L147"
    /\ IF cfg.maxVertsPerPoly <= DT_VERTS_PER_POLYGON
       THEN /\ Goto("L180")
            /\ warning' = warning
            /\ log' = log
            /\ UNCHANGED <<self, heap>>
       ELSE /\ pc' = "end"
            /\ outcome' = "skipped"
            /\ fatal' = fatal
            /\ DebugWarning
            /\ log' = Append(log, Op("Debug::Warning", 9, <<>>))
            /\ self' = [self EXCEPT !["navData"] = "navData"]
            /\ heap' = [heap EXCEPT !["navData"] = "live"]
    /\ UNCHANGED <<mesh, opt, cfg, ub, failed, ptr, frees, markNt, rasterNt,
                   meshInit, meshOwnsData, queryInit, destroyed, dtorFreed>>

\* lines 147, 207-209: if (cfg.maxVertsPerPoly <= DT_VERTS_PER_POLYGON) {...}
\* else Debug::Warning(...), after which the constructor returns
CheckVertsPerPoly ==
    /\ pc = "L147"
    /\ IF cfg.maxVertsPerPoly <= DT_VERTS_PER_POLYGON
       THEN /\ Goto("L180")
            /\ warning' = warning
            /\ log' = log
       ELSE /\ pc' = "end"
            /\ outcome' = "skipped"
            /\ fatal' = fatal
            /\ DebugWarning
            /\ log' = Append(log, Op("Debug::Warning", 9, <<>>))
    /\ UNCHANGED <<mesh, opt, cfg, ub, failed, ptr, self, heap, frees, markNt, rasterNt,
                   meshInit, meshOwnsData, queryInit, destroyed, dtorFreed>>

\* lines 148-183: fill in dtNavMeshCreateParams from pmesh and dmesh;
\* if (!dtCreateNavMeshData(&params, &navData, &navDataSize)) Debug::Fatal(...)
CreateNavMeshData ==
    /\ pc = "L180"
    /\ log' = Append(log, Op("dtCreateNavMeshData", 9, <<"pmesh", "dmesh", "navData">>))
    /\ ub' = (ub \/ ptr["pmesh"] = Null \/ ptr["dmesh"] = Null)
    /\ \/ /\ self' = [self EXCEPT !["navData"] = "navData"]
          /\ heap' = [heap EXCEPT !["navData"] = "live"]
          /\ Goto("L185")
          /\ failed' = failed
       \/ /\ UNCHANGED <<self, heap>>
          /\ DebugFatal("Detour mesh data creation failed")
          /\ Report("dtCreateNavMeshData")
    /\ UNCHANGED <<mesh, opt, cfg, warning, ptr, frees, markNt, rasterNt,
                   meshInit, meshOwnsData, queryInit, destroyed, dtorFreed>>

\* AllocNavMesh as it would be with the result of dtAllocNavMesh stored in the
\* member navMesh as well
AllocNavMeshIntoMember ==
    /\ pc = "L185"
    /\ \/ /\ ptr' = [ptr EXCEPT !["navMesh"] = "navMesh"]
          /\ self' = [self EXCEPT !["navMesh"] = "navMesh"]
          /\ heap' = [heap EXCEPT !["navMesh"] = "live"]
          /\ frees' = frees
          /\ log' = Append(log, Op("dtAllocNavMesh", 9, <<>>))
          /\ Goto("L194")
          /\ failed' = failed
       \/ /\ ptr' = [ptr EXCEPT !["navMesh"] = Null]
          /\ self' = self
          /\ Free(self["navData"])
          /\ log' = log \o <<Op("dtAllocNavMesh", 9, <<>>), Op("dtFree", 9, <<"navData", self["navData"]>>)>>
          /\ DebugFatal("Detour mesh allocaton failed")
          /\ Report("dtAllocNavMesh")
    /\ UNCHANGED <<mesh, opt, cfg, warning, ub, markNt, rasterNt,
                   meshInit, meshOwnsData, queryInit, destroyed, dtorFreed>>

\* lines 185-190: auto navMesh = dtAllocNavMesh() declares a local that hides
\* the member; if (!navMesh) { dtFree(navData); Debug::Fatal(...) }
AllocNavMesh ==
    /\ pc = "L185"
    /\ \/ /\ ptr' = [ptr EXCEPT !["navMesh"] = "navMesh"]
          /\ heap' = [heap EXCEPT !["navMesh"] = "live"]
          /\ frees' = frees
          /\ log' = Append(log, Op("dtAllocNavMesh", 9, <<>>))
          /\ Goto("L194")
          /\ failed' = failed
       \/ /\ ptr' = [ptr EXCEPT !["navMesh"] = Null]
          /\ Free(self["navData"])
          /\ log' = log \o <<Op("dtAllocNavMesh", 9, <<>>), Op("dtFree", 9, <<"navData", self["navData"]>>)>>
          /\ DebugFatal("Detour mesh allocaton failed")
          /\ Report("dtAllocNavMesh")
    /\ UNCHANGED <<mesh, opt, cfg, warning, ub, self, markNt, rasterNt,
                   meshInit, meshOwnsData, queryInit, destroyed, dtorFreed>>

\* lines 192-199: status = navMesh->init(navData, navDataSize, DT_TILE_FREE_DATA);
\* if (dtStatusFailed(status)) { dtFree(navData); Debug::Fatal(...) }
InitNavMesh ==
    /\ pc = "L194"
    /\ ub' = (ub \/ ptr["navMesh"] = Null)
    /\ \/ /\ meshInit' = TRUE
          /\ meshOwnsData' = TRUE
          /\ UNCHANGED <<heap, frees>>
          /\ log' = Append(log, Op("dtNavMesh::init", 9, <<"navData", "DT_TILE_FREE_DATA">>))
          /\ Goto("L201")
          /\ failed' = failed
       \/ /\ UNCHANGED <<meshInit, meshOwnsData>>
          /\ Free(self["navData"])
          /\ log' = log \o <<Op("dtNavMesh::init", 9, <<"navData", "DT_TILE_FREE_DATA">>),
                             Op("dtFree", 9, <<"navData", self["navData"]>>)>>
          /\ DebugFatal("Could not init Detour navmesh")
          /\ Report("dtNavMesh::init")
    /\ UNCHANGED <<mesh, opt, cfg, warning, ptr, self, markNt, rasterNt,
                   queryInit, destroyed, dtorFreed>>

\* lines 201-205: status = navMeshQuery->init(navMesh, 2048) on the member
\* navMeshQuery, which nothing has allocated; if (dtStatusFailed(status))
\* Debug::Fatal(...); the constructor returns after it
InitNavMeshQuery ==
    /\ pc = "L201"
    /\ log' = Append(log, Op("dtNavMeshQuery::init", 9, <<"navMesh", "2048">>))
    /\ ub' = (ub \/ self["navMeshQuery"] = Null)
    /\ \/ /\ queryInit' = (self["navMeshQuery"] # Null)
          /\ pc' = "end"
          /\ outcome' = "success"
          /\ fatal' = fatal
          /\ failed' = failed
       \/ /\ queryInit' = queryInit
          /\ DebugFatal("Could not init Detour navmesh query")
          /\ Report("dtNavMeshQuery::init")
       \/ /\ self["navMeshQuery"] = Null
          /\ queryInit' = queryInit
          /\ Crash
          /\ failed' = failed
    /\ UNCHANGED <<mesh, opt, cfg, warning, ptr, self, heap, frees, markNt, rasterNt,
                   meshInit, meshOwnsData, destroyed, dtorFreed>>

(***************************************************************************)
(* The destructor.  It runs only on a component whose constructor          *)
(* returned: a constructor left by Debug::Fatal, by an exception or by a   *)
(* crash leaves no object to destroy.                                      *)
(***************************************************************************)
\* the objects the member pointers ms point to
Targets(ms) == {self[m] : m \in ms} \ {Null}

\* lines 212-216: dtFree(navMesh); dtFree(navMeshQuery); dtFree(navData)
Destructor ==
    /\ pc = "end"
    /\ outcome \in {"success", "skipped"}
    /\ ~destroyed
    /\ destroyed' = TRUE
    /\ log' = log \o <<Op("dtFree", 10, <<"navMesh", self["navMesh"]>>),
                       Op("dtFree", 10, <<"navMeshQuery", self["navMeshQuery"]>>),
                       Op("dtFree", 10, <<"navData", self["navData"]>>)>>
    /\ heap' = HeapAfterFree(HeapAfterFree(HeapAfterFree(heap, self["navMesh"]),
                                           self["navMeshQuery"]), self["navData"])
    /\ frees' = FreesAfterFree(FreesAfterFree(FreesAfterFree(frees, self["navMesh"]),
                                              self["navMeshQuery"]), self["navData"])
    /\ dtorFreed' = Targets(Members)
    /\ ub' = (ub \/ \E o \in Targets(Members) : heap[o] = "freed")
    /\ UNCHANGED <<mesh, opt, cfg, pc, outcome, fatal, warning, failed, ptr, self,
                   markNt, rasterNt, meshInit, meshOwnsData, queryInit>>

Next ==
    \/ AssertSystemRAMCopy
    \/ SetupConfig
    \/ AllocHeightfield
    \/ CreateHeightfield
    \/ AllocTriareas
    \/ MarkWalkableTriangles
    \/ RasterizeTriangles
    \/ DeleteTriareas
    \/ FilterLowHangingWalkableObstacles
    \/ FilterLedgeSpans
    \/ FilterWalkableLowHeightSpans
    \/ AllocCompactHeightfield
    \/ BuildCompactHeightfield
    \/ FreeHeightField
    \/ ErodeWalkableArea
    \/ SwitchPartitionMethod
    \/ BuildDistanceField
    \/ BuildRegions
    \/ BuildRegionsMonotone
    \/ BuildLayerRegions
    \/ AllocContourSet
    \/ BuildContours
    \/ AllocPolyMesh
    \/ BuildPolyMesh
    \/ AllocPolyMeshDetail
    \/ BuildPolyMeshDetail
    \/ FreeCompactAndContours
    \/ CheckVertsPerPoly
    \/ CreateNavMeshData
    \/ AllocNavMesh
    \/ InitNavMesh
    \/ InitNavMeshQuery
    \/ Destructor

Spec == Init /\ [][Next]_vars

\* the configuration builder alone, over every valid profile
NextConfig ==
    \/ AssertSystemRAMCopy
    \/ SetupConfig

SpecConfig == InitConfig /\ [][NextConfig]_vars

(***************************************************************************)
(* Definitions used by the properties.                                     *)
(***************************************************************************)
\* the component holds an initialized runtime navigation mesh
HoldsMesh ==
    /\ self["navMesh"] # Null
    /\ heap[self["navMesh"]] = "live"
    /\ meshInit

\* the component holds a query initialized against the mesh
HoldsQuery ==
    /\ self["navMeshQuery"] # Null
    /\ heap[self["navMeshQuery"]] = "live"
    /\ queryInit

\* how many times the component itself has passed object o to dtFree
ComponentFrees(o) ==
    Cardinality({i \in DOMAIN log : log[i].op = "dtFree" /\ log[i].args[2] = o})

\* the stage of the first operation that reported failure
FailedStage ==
    (CHOOSE e \in {log[i] : i \in DOMAIN log} : e.op = failed).stage

Stage9Fatals ==
    {"Detour mesh data creation failed", "Detour mesh allocaton failed",
     "Could not init Detour navmesh", "Could not init Detour navmesh query"}

\* the position in the log of the destructor's dtFree of member m, 0 when there is none
ReleasePos(m) ==
    IF \E i \in DOMAIN log : log[i].stage = 10 /\ log[i].args[1] = m
    THEN CHOOSE i \in DOMAIN log : log[i].stage = 10 /\ log[i].args[1] = m
    ELSE 0

(***************************************************************************)
(* Properties.                                                             *)
(***************************************************************************)
\* C1: when the mesh has a system-memory copy, no allocation and no stage
\* call has reported failure and maxVertsPerPoly is within the runtime limit,
\* no fatal diagnostic is raised, and the finished bake has succeeded with an
\* initialized runtime mesh and query held by the component.
C1_BakeSucceeds ==
    (mesh.hasRAM /\ opt.maxVertsPerPoly <= DT_VERTS_PER_POLYGON /\ failed = "")
        => /\ outcome # "fatal"
           /\ pc = "end" => (outcome = "success" /\ HoldsMesh /\ HoldsQuery)

\* C2: once the constructor is over, the component holds both an initialized
\* mesh and a query initialized against it, or neither of the two.
C2_NoPartialNavMesh ==
    pc = "end" => \/ HoldsMesh /\ HoldsQuery
                  \/ ~HoldsMesh /\ ~HoldsQuery

\* a bake aborted by the failure of the query's initialization, after the
\* runtime mesh object was initialized
C2_Witness ==
    /\ pc = "end"
    /\ outcome = "fatal"
    /\ fatal = "Could not init Detour navmesh query"
    /\ meshInit

\* C3: with maxVertsPerPoly above the runtime limit (the mesh has a
\* system-memory copy, nothing has reported failure), no fatal diagnostic is
\* raised, dtCreateNavMeshData is never called, no runtime mesh or query is
\* produced, and the finished bake is in the skipped state with the warning
\* raised.
C3_SkippedAboveLimit ==
    (mesh.hasRAM /\ opt.maxVertsPerPoly > DT_VERTS_PER_POLYGON /\ failed = "")
        => /\ outcome # "fatal"
           /\ \A i \in DOMAIN log : log[i].op # "dtCreateNavMeshData"
           /\ heap["navMesh"] = "unalloc" /\ heap["navMeshQuery"] = "unalloc"
           /\ pc = "end" => (outcome = "skipped" /\ warning)

\* C4: the destructor run after a skipped bake frees nothing, and no object
\* of the bake has been freed twice.
C4_DestructorSafeAfterSkip ==
    (outcome = "skipped" /\ destroyed)
        => /\ dtorFreed = {}
           /\ \A o \in Objects : frees[o] <= 1

\* a skipped bake whose component has been destroyed
C4_Witness ==
    /\ outcome = "skipped"
    /\ warning
    /\ destroyed

\* C5: once the runtime mesh has taken the blob, the blob is freed exactly
\* once over construction and destruction, and never by the component.
C5_BlobFreedOnlyByMesh ==
    (destroyed /\ meshOwnsData)
        => /\ frees["navData"] = 1
           /\ ComponentFrees("navData") = 0

\* C6: when a fatal diagnostic is raised, no intermediate structure allocated
\* in the bake is still alive.
C6_IntermediatesReleasedOnFatal ==
    outcome = "fatal" => \A o \in Intermediates : heap[o] # "live"

\* C7: when the serializer stage raises a fatal diagnostic, none of the blob,
\* the runtime mesh and the query is still alive, and none was freed twice.
C7_RuntimeObjectsFreedOnFatal ==
    (outcome = "fatal" /\ fatal \in Stage9Fatals)
        => \A o \in RuntimeObjects : heap[o] # "live" /\ frees[o] <= 1

\* C8: once the allocation of the solid heightfield has failed, the bake is
\* over with a fatal diagnostic and no later operation has run on the
\* heightfield.
C8_AbortOnHeightfieldAllocFailure ==
    failed = "rcAllocHeightfield"
        => /\ outcome = "fatal"
           /\ \A i \in DOMAIN log :
                  log[i].op \notin {"rcCreateHeightfield", "rcMarkWalkableTriangles",
                                    "rcRasterizeTriangles"}

\* C9: the destructor of a successfully built component releases the query
\* and the mesh once each, the query before the mesh.
C9_ReverseOrderRelease ==
    (destroyed /\ outcome = "success")
        => /\ frees["navMeshQuery"] = 1
           /\ frees["navMesh"] = 1
           /\ ReleasePos("navMeshQuery") < ReleasePos("navMesh")

\* C10: the operations run in stage order, none of them twice, and after an
\* allocation or a call has reported failure no operation of a later stage
\* has run.
C10_ForwardOnceShortCircuit ==
    /\ \A i, j \in DOMAIN log : i < j => log[i].stage <= log[j].stage
    /\ \A i, j \in DOMAIN log :
           (i < j /\ log[i].op = log[j].op) => log[i].op = "dtFree"
    /\ failed # "" => \A i \in DOMAIN log : log[i].stage <= FailedStage

\* C11: with a mesh that has no system-memory copy, the assertion is the only
\* operation that ever runs (no vertex or index data is copied, no stage
\* starts), and once it has run the bake is over with a fatal diagnostic.
C11_AbortWithoutSystemCopy ==
    ~mesh.hasRAM
        => /\ \A i \in DOMAIN log : log[i].op = "Debug::Assert"
           /\ pc # "L11" => (pc = "end" /\ outcome = "fatal" /\ ~destroyed)

\* the assertion has failed on a mesh without a system-memory copy
C11_Witness ==
    /\ ~mesh.hasRAM
    /\ outcome = "fatal"
    /\ fatal = "MeshAsset must be created with keepInSystemRAM = true"

\* n is the ceiling of a / b: the least integer that is at least a / b
IsCeiling(n, a, b) ==
    /\ n \in Nat
    /\ n * b >= a
    /\ (n - 1) * b < a

\* C12: once the configuration is built from a valid agent profile and positive
\* cell units, walkableHeight and walkableClimb are the ceilings of height and
\* max climb over the cell height, walkableRadius is the ceiling of the radius
\* over the cell size, and all three are non-negative integers.
C12_VoxelUnitsAreCeilings ==
    (pc = "L50" /\ opt.agent \in AgentProfiles /\ opt.cellSize > 0 /\ opt.cellHeight > 0)
        => /\ IsCeiling(cfg.walkableHeight, opt.agent.height, cfg.ch)
           /\ IsCeiling(cfg.walkableClimb, opt.agent.maxClimb, cfg.ch)
           /\ IsCeiling(cfg.walkableRadius, opt.agent.radius, cfg.cs)
           /\ cfg.ch = opt.cellHeight /\ cfg.cs = opt.cellSize

\* a configuration built where no quotient is whole: every ceiling rounds up
C12_Witness ==
    /\ pc = "L50"
    /\ cfg.walkableHeight * cfg.ch > opt.agent.height
    /\ cfg.walkableClimb * cfg.ch > opt.agent.maxClimb
    /\ cfg.walkableRadius * cfg.cs > opt.agent.radius
    /\ cfg.cs # cfg.ch

\* C14: the query's initialization is only ever invoked on an allocated query
\* object, with the node-pool capacity 2048 and the runtime mesh initialized in
\* this bake, and after a successful bake the component holds that mesh and
\* the query bound to it.
C14_QueryAllocatedBeforeInit ==
    \A i \in DOMAIN log :
        log[i].op = "dtNavMeshQuery::init"
            => /\ log[i].args = <<"navMesh", "2048">>
               /\ meshInit
               /\ self["navMeshQuery"] # Null
               /\ heap["navMeshQuery"] # "unalloc"
               /\ outcome = "success" => (HoldsMesh /\ HoldsQuery)

\* C15: after a bake that returned, by success or by skipping, no intermediate
\* structure is still allocated.
C15_IntermediatesReleasedOnReturn ==
    (pc = "end" /\ outcome \in {"success", "skipped"})
        => \A o \in Intermediates : heap[o] # "live"

\* the objects an operation is handed
Uses(e) ==
    {e.args[k] : k \in DOMAIN e.args}

ReleaseOps ==
    {"delete[]", "rcFreeHeightField", "rcFreeCompactHeightfield", "rcFreeContourSet"}

\* the positions of the operation named name in the log
Positions(name) ==
    {i \in DOMAIN log : log[i].op = name}

\* C16: no operation is handed a structure after its release (so none is
\* released twice); the heightfield is released only after the compact
\* heightfield was built from it; the compact heightfield is released, together
\* with the contour set, after the detail mesh was built and before the
\* navigation data is created.
C16_NoUseAfterRelease ==
    /\ \A i, j \in DOMAIN log :
           (i < j /\ log[i].op \in ReleaseOps) => Uses(log[i]) \cap Uses(log[j]) = {}
    /\ \A o \in {"triareas", "solid", "chf", "cset"} : frees[o] <= 1
    /\ \A i \in Positions("rcFreeHeightField") :
           \E j \in Positions("rcBuildCompactHeightfield") : j < i
    /\ \A i \in Positions("rcFreeCompactHeightfield") :
           /\ \E j \in Positions("rcBuildPolyMeshDetail") : j < i
           /\ i + 1 \in Positions("rcFreeContourSet")
           /\ \A j \in Positions("dtCreateNavMeshData") : i < j
    /\ \A i \in Positions("rcBuildPolyMeshDetail") : heap["chf"] # "unalloc"
    /\ pc \in {"L136", "L141"} => heap["chf"] = "live"

\* the compact heightfield and the contour set have been released and the
\* navigation data created after that
C16_Witness ==
    /\ heap["chf"] = "freed"
    /\ heap["cset"] = "freed"
    /\ Positions("rcFreeHeightField") # {}
    /\ Positions("dtCreateNavMeshData") # {}

RegionOps ==
    {"rcBuildRegions", "rcBuildRegionsMonotone", "rcBuildLayerRegions"}

\* C17 as claimed: every partitioning variant is invoked with a border size of
\* zero and with both the minimum region area and the merge region area.
C17_AllVariantsTakeBothThresholds ==
    \A i \in DOMAIN log :
        log[i].op \in RegionOps
            => log[i].args = <<"chf", "0", "cfg.minRegionArea", "cfg.mergeRegionArea">>

\* C17 as amended: every partitioning variant is invoked on the compact
\* heightfield with a border size of zero and the configuration's minimum
\* region area; Watershed and Monotone are also given the merge region area,
\* Layer is given no merge threshold.
C17_VariantArguments ==
    \A i \in DOMAIN log :
        /\ log[i].op \in {"rcBuildRegions", "rcBuildRegionsMonotone"}
               => log[i].args = <<"chf", "0", "cfg.minRegionArea", "cfg.mergeRegionArea">>
        /\ log[i].op = "rcBuildLayerRegions"
               => log[i].args = <<"chf", "0", "cfg.minRegionArea">>

\* a bake of each variant has run its partitioning call: this one Layer
C17_Witness ==
    /\ opt.partitionMethod = "Layer"
    /\ Positions("rcBuildLayerRegions") # {}
    /\ pc = "L114"

\* the partitioning call of each strategy tag
RegionOpOf(method) ==
    CASE method = "Watershed" -> "rcBuildRegions"
      [] method = "Monotone" -> "rcBuildRegionsMonotone"
      [] method = "Layer" -> "rcBuildLayerRegions"

\* C18: a bake that has reached contour tracing has run exactly one
\* partitioning call, the one of its strategy tag, after the erosion and before
\* contour tracing; a Watershed bake builds the distance field before it grows
\* regions, a Monotone or Layer bake never builds one.
C18_OnePartitioningVariant ==
    /\ \A c \in Positions("rcAllocContourSet") :
           /\ Cardinality({i \in DOMAIN log : log[i].op \in RegionOps}) = 1
           /\ \E r \in Positions(RegionOpOf(opt.partitionMethod)) :
                  /\ r < c
                  /\ \E e \in Positions("rcErodeWalkableArea") : e < r
    /\ \A r \in Positions("rcBuildRegions") :
           \E d \in Positions("rcBuildDistanceField") : d < r
    /\ opt.partitionMethod # "Watershed" => Positions("rcBuildDistanceField") = {}

\* a Watershed bake and a Monotone bake are both checked; this is the
\* Watershed one, at contour tracing
C18_Witness ==
    /\ opt.partitionMethod = "Watershed"
    /\ pc = "L118"
    /\ Positions("rcBuildDistanceField") # {}

IsFilter(e) ==
    e.stage = 3

FilterOrder ==
    <<"rcFilterLowHangingWalkableObstacles", "rcFilterLedgeSpans", "rcFilterWalkableLowHeightSpans">>

\* C19: the filters that have run are, in order, the low-hanging obstacle
\* filter, the ledge filter and the low-clearance filter, each once and each on
\* the heightfield solid; they run after the rasterization and before the
\* compact heightfield is allocated, by which time all three have run.
C19_FilterOrder ==
    LET ran == SelectSeq(log, IsFilter) IN
    /\ Len(ran) <= 3
    /\ \A k \in DOMAIN ran : ran[k].op = FilterOrder[k] /\ "solid" \in Uses(ran[k])
    /\ \A i \in DOMAIN log :
           IsFilter(log[i])
               => /\ \E r \in Positions("rcRasterizeTriangles") : r < i
                  /\ \A c \in Positions("rcAllocCompactHeightfield")
                               \cup Positions("rcBuildCompactHeightfield") : i < c
    /\ Positions("rcAllocCompactHeightfield") # {} => Len(ran) = 3

\* the three filters have run and the compact heightfield is being built
C19_Witness ==
    /\ pc = "L78"
    /\ Len(SelectSeq(log, IsFilter)) = 3

\* C20: the triangle count handed to rcMarkWalkableTriangles and the one
\* handed to rcRasterizeTriangles are the number of index triples, which is
\* the length of the triangle-area array.
C20_TriangleCounts ==
    /\ markNt # -1 => markNt = mesh.ntris
    /\ rasterNt # -1 => rasterNt = mesh.ntris

====
